---- MODULE Spec2Model ----
(***************************************************************************)
(* A model of artillery-engine-mqtt (src/index.js).  The file holds two    *)
(* engines: the prototype-based engine with the request/acknowledge        *)
(* correlation map (lines 14-362, engine = "legacy") and the class-based   *)
(* publish engine (lines 382-643, engine = "class").  One virtual user     *)
(* (VU) is one run of the function createScenario returns.                 *)
(*                                                                         *)
(* Library behaviour assumed (the libraries are not part of src/):         *)
(*  - async.waterfall runs its tasks in order, hands each task a callback  *)
(*    that throws "Callback was already called." on a second use, and      *)
(*    calls its final callback at most once;                               *)
(*  - async.eachSeries runs the iteratee on one item at a time and stops   *)
(*    at the first error;                                                  *)
(*  - an exception that leaves a handler is counted (thrown, cause) and    *)
(*    leaves the rest of the VU's state as it was.                         *)
(***************************************************************************)
EXTENDS Integers, Sequences, FiniteSets, TLC

\* ------------------------------------------------------------------ bounds
NumVU == 2
MaxFlow == 2
MaxEvents == 1
MaxIter == 2
MaxCreate == 2
MaxFrames == 2
MaxExpr == 2

VUs == 1..NumVU
None == "none"

\* The names the processor module exports (script.config.processor).
Registered == {"fnA", "bsA", "bsB", "asA", "asB", "hookA", "hookB", "wtA"}

\* ------------------------------------------------------- step descriptors
\* One request spec (rs) of a flow.  origin is a ghost tag: where the
\* descriptor came from (beforeScenario, the declared flow, afterScenario).
Rs(kind, name, hooks, hasCount, count, whileTrue, inner, ack, origin) ==
    [kind |-> kind, name |-> name, hooks |-> hooks, hasCount |-> hasCount,
     count |-> count, whileTrue |-> whileTrue, inner |-> inner, ack |-> ack,
     origin |-> origin]

FnStep(name, origin) == Rs("function", name, <<>>, FALSE, 0, None, <<>>, FALSE, origin)
PubStep(hooks) == Rs("publish", None, hooks, FALSE, 0, None, <<>>, FALSE, "flow")
LogStep == Rs("log", None, <<>>, FALSE, 0, None, <<>>, FALSE, "flow")
ThinkStep == Rs("think", None, <<>>, FALSE, 0, None, <<>>, FALSE, "flow")
UnknownStep == Rs("unknown", None, <<>>, FALSE, 0, None, <<>>, FALSE, "flow")
CloseStep == Rs("close", None, <<>>, FALSE, 0, None, <<>>, FALSE, "flow")
RpcStep(name, ack) == Rs("rpc", name, <<>>, FALSE, 0, None, <<>>, ack, "flow")
LoopStep(hasCount, count, whileTrue, inner) ==
    Rs("loop", None, <<>>, hasCount, count, whileTrue, inner, FALSE, "flow")

\* The counts a loop step declares: absent, 0, 1, 2.
LoopSteps(inner) ==
    {LoopStep(FALSE, 0, wt, inner) : wt \in {None, "wtA", "wtX"}}
        \cup {LoopStep(TRUE, n, None, inner) : n \in 0..2}

ClassSteps ==
    {FnStep("fnA", "flow"), FnStep("fnX", "flow"), PubStep(<<>>),
     PubStep(<<"hookB">>), PubStep(<<"hookX">>), LogStep, ThinkStep,
     UnknownStep} \cup LoopSteps(<<PubStep(<<>>)>>)

LegacySteps ==
    {FnStep("fnA", "flow"), FnStep("fnX", "flow"), RpcStep("m1", TRUE),
     RpcStep("m2", FALSE), LogStep, ThinkStep, CloseStep}
        \cup LoopSteps(<<RpcStep("m1", TRUE)>>)

\* The steps a flow goes on with after its first step.
TailSteps(e) ==
    IF e = "class" THEN {PubStep(<<>>), FnStep("fnA", "flow")}
    ELSE {RpcStep("m1", TRUE), FnStep("fnA", "flow")}

\* The flows: any step first, then up to MaxFlow - 1 further steps.
Flows(e) ==
    LET first == IF e = "class" THEN ClassSteps ELSE LegacySteps
    IN {f \in UNION {[1..n -> first \cup TailSteps(e)] : n \in 1..MaxFlow} :
          \A i \in 2..Len(f) : f[i] \in TailSteps(e)}

\* The scenario specs the engines are given.
ScenarioSpecs(e) ==
    IF e = "class"
    THEN [beforeScenario : {<<>>, <<"bsA", "bsB">>},
          afterScenario : {<<>>, <<"asA", "asB">>},
          beforeRequest : {<<>>, <<"hookA">>},
          flow : Flows("class")]
    ELSE [beforeScenario : {<<>>}, afterScenario : {<<>>},
          beforeRequest : {<<>>}, flow : Flows("legacy")]

\* The scenario specs of the runs with two VUs launched: one or two steps,
\* no scenario-level hooks.
MultiSpecs(e) ==
    [beforeScenario : {<<>>}, afterScenario : {<<>>}, beforeRequest : {<<>>},
     flow : IF e = "class"
            THEN {<<PubStep(<<"hookB">>)>>, <<FnStep("fnA", "flow")>>,
                  <<FnStep("fnX", "flow")>>, <<ThinkStep>>,
                  <<LoopStep(FALSE, 0, "wtA", <<PubStep(<<>>)>>)>>}
            ELSE {<<RpcStep("m1", TRUE)>>,
                  <<RpcStep("m2", FALSE), RpcStep("m1", TRUE)>>}]

\* ------------------------------------------------------------------ state
VARIABLES
    engine,     \* which of the two engines of src/index.js is loaded
    spec,       \* scenarioSpec, the object createScenario is given
    tasks,      \* the compiled tasks (one per descriptor of the flow)
    created,    \* how many times createScenario was called on spec
    handlers,   \* legacy: this.responseHandlers, id -> pending entry
    timers,     \* legacy: the setTimeout callbacks that have not run yet
    nextId,     \* legacy: the next value of _.uniqueId()
    frames,     \* ghost: how many inbound frames were handled
    lastFrame,  \* ghost: the frame handled last
    reqs,       \* ghost: per request id, what happened to it
    vus,        \* the VUs the caller launches
    vu,         \* per VU: the state of its run
    probe       \* the acknowledge spec and the response a request is given

vars == <<engine, spec, tasks, created, handlers, timers, nextId, frames,
          lastFrame, reqs, vus, vu, probe>>

\* An inbound frame: "<marker>|<json>", or a string without the separator;
\* json parses or not; id is the id the parsed json carries (0: none).
Frame(sep, marker, json, id) ==
    [sep |-> sep, marker |-> marker, json |-> json, id |-> id]

NoFrame == Frame(FALSE, "", FALSE, 0)

\* The frames a client receives.
Frames ==
    {Frame(FALSE, "41", FALSE, 0), Frame(TRUE, "42", TRUE, 1),
     Frame(TRUE, "41", FALSE, 0), Frame(TRUE, "41", TRUE, 1),
     Frame(TRUE, "41", TRUE, 2)}

\* The state of one VU before the scenario function is called.
IdleVU(ws) ==
    [st |-> "idle",       \* idle | run | closing | done
     idx |-> 0,           \* waterfall: index of the running task (0: connect)
     ph |-> "none",       \* what the running step waits for
     seq |-> 0,           \* ghost: number of step executions started
     hk |-> 0,            \* publish: index of the hook in progress
     lj |-> 0,            \* loop: index of the running inner step (0: none)
     li |-> 0,            \* loop: iterations completed (the helper's i)
     client |-> "none",   \* none | open | ended
     onceConnect |-> FALSE, onceError |-> FALSE,  \* listeners still registered
     mqtt |-> FALSE,      \* context.mqtt (class) / context.client (legacy) set
     ws |-> ws,           \* legacy: the caller's context carries a ws
     initCb |-> 0,        \* invocations of the connect step's continuation
     wfDone |-> FALSE,    \* the waterfall's final callback has run
     ends |-> 0,          \* calls of client.end()
     cb |-> 0,            \* invocations of the caller's callback
     res |-> None,        \* the error the caller's callback got
     resCtx |-> "undef",  \* the context argument it got: ctx | empty | undef
     thrown |-> 0, cause |-> None,   \* exceptions that left a handler
     failed |-> None,     \* ghost: first error a step gave its continuation
     failSeq |-> 0,       \* ghost: seq when that error was given
     hErr |-> None,       \* ghost: the error a hook of this publish step gave
     fnErr |-> None,      \* ghost: what a function step's function passed last
     nEv |-> 0,           \* transport events delivered after the first
     log |-> <<>>,        \* ghost: task indices in the order they started
     fin |-> <<>>,        \* ghost: task indices whose continuation fired
     iterLog |-> <<>>,    \* ghost: loop variable at each iteration start
     hs |-> <<>>,         \* ghost: hooks started in this publish step
     hf |-> 0,            \* ghost: hook continuations fired in this step
     pub |-> 0,           \* ghost: transport publish calls in this step
     captured |-> 0,      \* legacy: captured values merged into context.vars
     body |-> FALSE,      \* legacy: context.vars.$ holds a response body
     succ |-> 0,          \* legacy: context._successCount
     ev |-> [error |-> 0, connect |-> 0, reconnect |-> 0, publish |-> 0,
             rate |-> 0, close |-> 0, closeErr |-> 0, started |-> 0,
             match |-> 0, response |-> 0]]

\* What processResponse is given for a request: the acknowledge spec
\* (lit: a literal data expectation; capture, match: expressions supplied)
\* and what the received body makes of it (equal: the body equals the
\* literal; comErr: captureOrMatch gives an error; matches: the success of
\* each match expression; captures: the number of captured values).
Probe(lit, capture, match, equal, comErr, matches, captures) ==
    [lit |-> lit, capture |-> capture, match |-> match, equal |-> equal,
     comErr |-> comErr, matches |-> matches, captures |-> captures]

\* A request without acknowledge data, capture or match.
NoProbe == Probe(FALSE, FALSE, FALSE, FALSE, FALSE, <<>>, 0)

Probes ==
    {Probe(l, c, m, q, e, ms, n) :
        l \in BOOLEAN, c \in BOOLEAN, m \in BOOLEAN, q \in BOOLEAN,
        e \in BOOLEAN,
        ms \in UNION {[1..k -> BOOLEAN] : k \in 0..MaxExpr},
        n \in 0..MaxExpr}

\* captureOrMatch reports a match per match expression and captures only
\* for capture expressions; a body is compared only with a literal.
ProbeOk(p) ==
    /\ (p.matches # <<>>) = p.match
    /\ (p.captures > 0) => p.capture
    /\ p.equal => p.lit
    /\ p.comErr => (p.capture \/ p.match)

\* The state after the engine is constructed, for the scenario specs in
\* specs and the VUs in launched.
InitWith(specs, launched) ==
    /\ probe = NoProbe
    /\ engine \in {"class", "legacy"}
    /\ spec \in specs[engine]
    /\ tasks = <<>>
    /\ created = 0
    /\ handlers = [k \in {} |-> 0]
    /\ timers = {}
    /\ nextId = 1
    /\ frames = 0
    /\ lastFrame = NoFrame
    /\ reqs = [k \in {} |-> 0]
    /\ vus = launched
    /\ \E ws \in (IF engine = "legacy" THEN BOOLEAN ELSE {FALSE}) :
         vu = [v \in VUs |-> IdleVU(ws)]

\* One VU, every scenario spec.
Init == InitWith([e \in {"class", "legacy"} |-> ScenarioSpecs(e)], {1})

\* Two VUs launched on the same engine instance.
InitMulti == InitWith([e \in {"class", "legacy"} |-> MultiSpecs(e)], {1, 2})

\* ------------------------------------------------------------ small helpers
\* A world is what one handler can change: the VU it runs for (c) and the
\* engine instance's shared correlation state (h, t, id).
World(v) ==
    [c |-> vu[v], v |-> v, h |-> handlers, t |-> timers, id |-> nextId,
     r |-> reqs]

Emit(w, name) == [w EXCEPT !.c.ev[name] = @ + 1]

\* An exception leaves the running handler.
Throw(w, cause) == [w EXCEPT !.c.thrown = @ + 1, !.c.cause = cause]

\* The running step threw before it kept its continuation anywhere.
Threw(w, cause) == [Throw(w, cause) EXCEPT !.c.ph = "threw"]

Put(h, id, entry) == [k \in DOMAIN h \cup {id} |-> IF k = id THEN entry ELSE h[k]]
Delete(h, id) == [k \in DOMAIN h \ {id} |-> h[k]]

\* ------------------------------------------------------- the VU's callback
\* The caller's callback of the scenario function: callback(err, context).
CallerCallback(w, err, ctx) ==
    [w EXCEPT !.c.cb = @ + 1, !.c.res = err, !.c.resCtx = ctx, !.c.st = "done"]

\* A final callback that reports success whatever the pipeline's error.
ClassDoneDropsError(w, err, ctx) ==
    [w EXCEPT !.c.cb = @ + 1, !.c.res = None, !.c.resCtx = ctx, !.c.st = "done"]

\* Class engine, the waterfall's final callback.
ClassDone(w, err, ctx) ==
    IF err # None
    THEN CallerCallback(w, err, ctx)
    ELSE IF ctx = "ctx" /\ w.c.mqtt
         THEN [w EXCEPT !.c.ends = @ + 1, !.c.client = "ended", !.c.st = "closing"]
         ELSE CallerCallback(w, err, ctx)

\* Legacy engine, the waterfall's final callback.
ScenarioWaterfallCb(w, err, ctx) ==
    LET w1 == IF ctx = "ctx" /\ w.c.mqtt
              THEN [w EXCEPT !.c.ends = @ + 1, !.c.client = "ended"]
              ELSE w
    IN CallerCallback(w1, err, ctx)

\* async.waterfall calls its final callback through once().
WaterfallFinal(w, err, ctx) ==
    IF w.c.wfDone
    THEN w
    ELSE LET w1 == [w EXCEPT !.c.wfDone = TRUE]
         IN IF engine = "class" THEN ClassDone(w1, err, ctx)
            ELSE ScenarioWaterfallCb(w1, err, ctx)

\* ------------------------------------------------------------ the pipeline
RECURSIVE StartStep(_, _), Callback(_, _, _)

\* The waterfall hands the context to its next task.
StartTask(w) ==
    LET i == w.c.idx + 1
    IN StartStep([w EXCEPT !.c.idx = i, !.c.log = Append(@, i)], tasks[i])

\* async.waterfall's next(err, context): stop at an error or after the last
\* task, start the next task otherwise.
WaterfallNext(w, err, ctx) ==
    LET w1 == [w EXCEPT !.c.fin = Append(@, w.c.idx)]
    IN IF err # None \/ w.c.idx = Len(tasks)
       THEN WaterfallFinal(w1, err, ctx)
       ELSE StartTask(w1)

\* rs.count || -1: the count the loop helper is given.
LoopCountArg(rs) == IF rs.hasCount /\ rs.count # 0 THEN rs.count ELSE -1

\* processor[rs.whileTrue]: the predicate the loop helper is given.
WhileTrueArg(rs) == IF rs.whileTrue \in Registered THEN rs.whileTrue ELSE None

\* The loop helper's test: a count >= 0 runs that many iterations, a
\* negative count loops on.
LoopContinues(n, i) == IF n >= 0 THEN i < n ELSE TRUE

\* The loop is over: the loop step's continuation fires.
LoopExit(w, err, ctx) ==
    WaterfallNext([w EXCEPT !.c.lj = 0, !.c.li = 0, !.c.ph = "none"], err, ctx)

\* Before each iteration: test, bind the loop variable to i, run the inner
\* steps from the first.
LoopTest(w) ==
    LET rs == tasks[w.c.idx]
    IN IF ~LoopContinues(LoopCountArg(rs), w.c.li)
       THEN LoopExit(w, None, "ctx")
       ELSE IF w.c.li >= MaxIter
            THEN [w EXCEPT !.c.ph = "bound", !.c.lj = 0]
            ELSE StartStep([w EXCEPT !.c.lj = 1,
                                     !.c.iterLog = Append(@, w.c.li)],
                           rs.inner[1])

\* After the last inner step: i++, then the whileTrue predicate (only a
\* loop without a count consults it) or the next test.
IterationEnd(w) ==
    LET rs == tasks[w.c.idx]
        w1 == [w EXCEPT !.c.li = @ + 1]
    IN IF LoopCountArg(rs) < 0 /\ WhileTrueArg(rs) # None
       THEN [w1 EXCEPT !.c.ph = "wt", !.c.lj = 0]
       ELSE LoopTest(w1)

\* The predicate answered b.
WhileTrueDone(w, b) ==
    IF b THEN LoopTest(w) ELSE LoopExit(w, None, "ctx")

\* The inner waterfall's next.
LoopInnerNext(w, err, ctx) ==
    LET rs == tasks[w.c.idx]
    IN IF err # None
       THEN LoopExit(w, err, ctx)
       ELSE IF w.c.lj < Len(rs.inner)
            THEN StartStep([w EXCEPT !.c.lj = @ + 1], rs.inner[w.c.lj + 1])
            ELSE IterationEnd(w)

\* The continuation of the running step: callback(err, context).
Callback(w, err, ctx) ==
    LET w1 == [w EXCEPT !.c.ph = "none", !.c.hk = 0,
                        !.c.failed = IF @ = None THEN err ELSE @,
                        !.c.failSeq = IF w.c.failed = None /\ err # None
                                      THEN w.c.seq ELSE @]
    IN IF w.c.lj = 0 THEN WaterfallNext(w1, err, ctx)
       ELSE LoopInnerNext(w1, err, ctx)

\* ------------------------------------------------- class engine: publish
\* _.concat(opts.beforeRequest || [], rs.publish.beforeRequest || [])
FunctionNames(rs) == spec.beforeRequest \o rs.hooks

\* publish(context, callback): the transport's publish is called.
Publish(w) == [w EXCEPT !.c.ph = "publish", !.c.hk = 0, !.c.pub = @ + 1]

\* The iteratee of A.eachSeries for the k-th name.  For a name the processor
\* does not export the code assigns to the const processFunc: a TypeError.
Iteratee(w, fn, k) ==
    IF fn \notin Registered
    THEN Threw(w, "constAssign")
    ELSE [w EXCEPT !.c.ph = "hook", !.c.hk = k, !.c.hs = Append(@, fn)]

\* A.eachSeries from the k-th name on; done(null) calls publish.
EachSeries(w, rs, k) ==
    IF k > Len(FunctionNames(rs))
    THEN Publish(w)
    ELSE Iteratee(w, FunctionNames(rs)[k], k)

\* A hook continuation that goes on whatever the hook reports.
HookNextDropsError(err) == None

\* What a hook's continuation hands to next: its error, or null.
HookNext(err) == err

\* A hook called its continuation with err.
HookContinuation(w, rs, err) ==
    LET w1 == [w EXCEPT !.c.hf = @ + 1, !.c.hErr = err]
    IN IF HookNext(err) # None
       THEN Callback(w1, HookNext(err), "ctx")
       ELSE EachSeries(w1, rs, w.c.hk + 1)

\* f(context, callback) of a publish step.
PublishStep(w, rs) ==
    EachSeries([w EXCEPT !.c.hs = <<>>, !.c.hf = 0, !.c.pub = 0,
                         !.c.hErr = None], rs, 1)

\* A publish callback that counts a failed publish as well.
PublishCallbackCountsFailure(w, error) ==
    IF error # None
    THEN Callback(Emit(Emit(w, "error"), "publish"), error, "undef")
    ELSE Callback(Emit(Emit(w, "publish"), "rate"), None, "ctx")

\* The transport's publish called back with error.
PublishCallback(w, error) ==
    IF error # None
    THEN Callback(Emit(w, "error"), error, "undef")
    ELSE Callback(Emit(Emit(w, "publish"), "rate"), None, "ctx")

\* A function step of the class engine.
ClassFunctionStep(w, rs) ==
    IF rs.name \notin Registered
    THEN [w EXCEPT !.c.ph = "tick"]
    ELSE [w EXCEPT !.c.ph = "fn"]

\* step(rs, ee, opts) of the class engine, run on a context.
ClassStep(w, rs) ==
    CASE rs.kind = "loop" -> LoopTest([w EXCEPT !.c.li = 0])
      [] rs.kind = "log" -> Threw(w, "chalk")
      [] rs.kind = "think" -> [w EXCEPT !.c.ph = "think"]
      [] rs.kind = "function" -> ClassFunctionStep(w, rs)
      [] rs.kind = "publish" -> PublishStep(w, rs)
      [] OTHER -> Callback(w, None, "ctx")

\* ---------------------------------------------------- legacy engine: steps
\* isAcknowledgeRequired(spec): spec.rpc && spec.acknowledge
IsAcknowledgeRequired(rs) == rs.name # None /\ rs.ack

\* ws.send(payload) with ws = context.ws || null.
WsSend(w) == IF w.c.ws THEN w ELSE Throw(w, "wsNull")

\* An id counted per VU: the number of the step execution.
UniqueIdPerVU(w) == w.c.seq

\* _.uniqueId(): the next value of a counter the whole process shares.
UniqueId(w) == w.id

\* A request step that goes on without waiting for the acknowledgment.
RequestStepNoWait(w, rs) ==
    LET uniqueId == w.id
        w1 == [w EXCEPT !.id = @ + 1]
    IN IF IsAcknowledgeRequired(rs)
       THEN Callback([w1 EXCEPT
                        !.h = Put(@, uniqueId,
                                  [executed |-> FALSE, rpc |-> rs.name,
                                   vu |-> w.v, seq |-> w.c.seq]),
                        !.t = @ \cup {[id |-> uniqueId, vu |-> w.v,
                                        seq |-> w.c.seq]},
                        !.r = Put(@, uniqueId,
                                  [vu |-> w.v, rpc |-> rs.name, matched |-> 0,
                                   late |-> 0, calls |-> 0, by |-> None,
                                   err |-> None, fired |-> FALSE])],
                     None, "ctx")
       ELSE IF w.c.ws
            THEN Callback(w1, None, "ctx")
            ELSE Threw(w1, "wsNull")

\* f(context, callback): the request step.
RequestStep(w, rs) ==
    LET uniqueId == UniqueId(w)
        w1 == [w EXCEPT !.id = @ + 1]
    IN IF IsAcknowledgeRequired(rs)
       THEN WsSend([w1 EXCEPT
                      !.h = Put(@, uniqueId,
                                [executed |-> FALSE, rpc |-> rs.name,
                                 vu |-> w.v, seq |-> w.c.seq]),
                      !.t = @ \cup {[id |-> uniqueId, vu |-> w.v,
                                      seq |-> w.c.seq]},
                      !.r = Put(@, uniqueId,
                                [vu |-> w.v, rpc |-> rs.name, matched |-> 0,
                                 late |-> 0, calls |-> 0, by |-> None,
                                 err |-> None, fired |-> FALSE]),
                      !.c.ph = "ack"])
       ELSE IF w.c.ws
            THEN Callback(w1, None, "ctx")
            ELSE Threw(w1, "wsNull")

\* A function step of the legacy engine: nothing happens for a name the
\* processor does not export.
LegacyFunctionStep(w, rs) ==
    IF rs.name \in Registered
    THEN [w EXCEPT !.c.ph = "fn"]
    ELSE [w EXCEPT !.c.ph = "lost"]

\* MqttEngine.prototype.step(requestSpec, ee), run on a context.
LegacyStep(w, rs) ==
    CASE rs.kind = "loop" -> LoopTest([w EXCEPT !.c.li = 0])
      [] rs.kind = "think" -> [w EXCEPT !.c.ph = "think"]
      [] rs.kind = "log" -> [w EXCEPT !.c.ph = "tick"]
      [] rs.kind = "close" -> Callback(w, None, "ctx")
      [] rs.kind = "function" -> LegacyFunctionStep(w, rs)
      [] OTHER -> RequestStep(w, rs)

StartStep(w, rs) ==
    LET w1 == [w EXCEPT !.c.seq = @ + 1]
    IN IF engine = "class" THEN ClassStep(w1, rs) ELSE LegacyStep(w1, rs)

\* ------------------------------------------- legacy engine: correlation
\* A continuation kept by a timer or a pending entry is the callback the
\* waterfall gave to step execution seq: good for one call.
StepContinuation(w, seq, err, ctx) ==
    IF w.c.seq = seq /\ w.c.ph = "ack"
    THEN Callback(w, err, ctx)
    ELSE Throw(w, "cbTwice")

\* Ghost: the continuation of request id is called by a match or a timeout.
NoteCall(w, id, by, err) ==
    [w EXCEPT !.r[id].calls = @ + 1,
              !.r[id].by = IF @ = None THEN by ELSE @,
              !.r[id].err = IF w.r[id].by = None THEN err ELSE @]

\* `response timeout for ${data.rpc}`
TimeoutError(rpc) == "response timeout for " \o rpc

\* A timeout callback that reports the timeout and leaves the entry in the
\* map.
TimeoutCallbackKeepsEntry(w, tm) ==
    IF tm.id \notin DOMAIN w.h
    THEN Throw(w, "dataUndefined")
    ELSE LET data == w.h[tm.id]
         IN IF ~data.executed
            THEN StepContinuation(
                     NoteCall(Emit(w, "error"), tm.id, "timeout",
                              TimeoutError(data.rpc)),
                     tm.seq, TimeoutError(data.rpc), "ctx")
            ELSE [w EXCEPT !.h = Delete(@, tm.id)]

\* A timeout callback that empties the whole map.
TimeoutCallbackClearsMap(w, tm) ==
    IF tm.id \notin DOMAIN w.h
    THEN Throw(w, "dataUndefined")
    ELSE LET data == w.h[tm.id]
             w1 == [w EXCEPT !.h = [k \in {} |-> 0]]
         IN IF ~data.executed
            THEN StepContinuation(
                     NoteCall(Emit(w1, "error"), tm.id, "timeout",
                              TimeoutError(data.rpc)),
                     tm.seq, TimeoutError(data.rpc), "ctx")
            ELSE w1

\* The function given to setTimeout for request id.
TimeoutCallback(w, tm) ==
    IF tm.id \notin DOMAIN w.h
    THEN Throw(w, "dataUndefined")
    ELSE LET data == w.h[tm.id]
             w1 == [w EXCEPT !.h = Delete(@, tm.id)]
         IN IF ~data.executed
            THEN StepContinuation(
                     NoteCall(Emit(w1, "error"), tm.id, "timeout",
                              TimeoutError(data.rpc)),
                     tm.seq, TimeoutError(data.rpc), "ctx")
            ELSE w1

\* The callback ackCallback gives processResponse: the step's continuation.
AckDone(w, id, err) ==
    LET w1 == IF err = None THEN Emit(w, "response") ELSE w
    IN StepContinuation(NoteCall(w1, id, "match", err), w.h[id].seq, err, "ctx")

\* processResponse compares with deepEqual, which the file never declares.
DeepEqualDefined == FALSE

\* processResponse(ee, data, response, context, callback) for the request id.
ProcessResponse(w, id, p) ==
    IF p.lit /\ ~DeepEqualDefined
    THEN Throw(w, "deepEqual")
    ELSE IF p.lit /\ ~p.equal
    THEN AckDone(Emit(w, "error"), id, "data is not valid")
    ELSE IF ~p.capture /\ ~p.match
    THEN AckDone(w, id, None)
    ELSE IF p.comErr
    THEN AckDone(Emit(w, "error"), id, "captureError")
    ELSE IF \E i \in 1..Len(p.matches) : ~p.matches[i]
    THEN AckDone(Emit(w, "error"), id, "Failed match")
    ELSE AckDone([w EXCEPT !.c.ev.match = @ + Len(p.matches),
                           !.c.captured = @ + p.captures,
                           !.c.body = TRUE,
                           !.c.succ = @ + 1], id, None)

\* ackCallback: the callback kept in the pending entry.
AckCallback(w, id) == ProcessResponse(w, id, probe)

\* __handleResponse, the entry found: data.executed = true; data.callback(...)
MatchEntry(w, id) == AckCallback([w EXCEPT !.h[id].executed = TRUE], id)

\* __handleResponse(topic, message, packet) reads msg, which no parameter
\* and no declaration binds.
MsgBound == FALSE

\* Ghost: a well-formed response frame for a pending request is handled.
NoteFrame(w, frame) ==
    IF frame.sep /\ frame.marker = "41" /\ frame.json /\ frame.id \in DOMAIN w.r
    THEN IF frame.id \in DOMAIN w.h /\ ~w.r[frame.id].fired
         THEN [w EXCEPT !.r[frame.id].matched = @ + 1]
         ELSE [w EXCEPT !.r[frame.id].late = @ + 1]
    ELSE w

\* __handleResponse: everything runs inside try; an exception is logged.
HandleResponse(w, frame) ==
    IF ~MsgBound
    THEN w
    ELSE IF frame.sep /\ frame.marker = "41" /\ frame.json
              /\ frame.id \in DOMAIN w.h
         THEN MatchEntry(w, frame.id)
         ELSE w

\* ------------------------------------------------------------ createScenario
\* The hook names turned into function steps.
HookSteps(names, origin) == [i \in 1..Len(names) |-> FnStep(names[i], origin)]

\* A flow with the afterScenario steps put in front of the declared flow.
NewFlowAfterFirst(sp) ==
    HookSteps(sp.beforeScenario, "before")
        \o HookSteps(sp.afterScenario, "after") \o sp.flow

\* beforeScenarioFns.concat(scenarioSpec.flow.concat(afterScenarioFns))
NewFlow(sp) ==
    HookSteps(sp.beforeScenario, "before") \o sp.flow
        \o HookSteps(sp.afterScenario, "after")

\* createScenario(scenarioSpec, ee).  The class engine stores the new flow
\* in scenarioSpec; the legacy engine compiles the flow as it is and
\* compile() starts a fresh responseHandlers map.
CreateScenario ==
    /\ created < MaxCreate
    /\ \A v \in VUs : vu[v].st = "idle"
    /\ created' = created + 1
    /\ IF engine = "class"
       THEN /\ spec' = [spec EXCEPT !.flow = NewFlow(spec)]
            /\ tasks' = NewFlow(spec)
            /\ UNCHANGED handlers
       ELSE /\ tasks' = spec.flow
            /\ handlers' = [k \in {} |-> 0]
            /\ UNCHANGED spec
    /\ UNCHANGED <<engine, timers, nextId, frames, lastFrame, reqs, vus, vu,
                   probe>>

\* ------------------------------------------------------------------ actions
Commit(w) ==
    /\ vu' = [vu EXCEPT ![w.v] = w.c]
    /\ handlers' = w.h
    /\ timers' = w.t
    /\ nextId' = w.id
    /\ reqs' = w.r
    /\ UNCHANGED <<engine, spec, tasks, created, vus, probe>>

\* scenario(initialContext, callback): the first task connects and
\* registers the client's listeners.
Scenario(v) ==
    /\ v \in vus
    /\ created > 0
    /\ vu[v].st = "idle"
    /\ Commit(Emit([World(v) EXCEPT !.c.st = "run", !.c.ph = "connect",
                                    !.c.client = "open",
                                    !.c.onceConnect = (engine = "class"),
                                    !.c.onceError = TRUE],
                   "started"))
    /\ UNCHANGED <<frames, lastFrame>>

\* The continuation of the connect task, as the listeners call it.
InitCallback(w, err, ctx) ==
    IF w.c.initCb = 0
    THEN Callback([w EXCEPT !.c.initCb = 1], err, ctx)
    ELSE Throw([w EXCEPT !.c.initCb = @ + 1], "cbTwice")

\* Class engine, mqttClient.once("connect").
ClassOnConnect(w) ==
    InitCallback(Emit([w EXCEPT !.c.onceConnect = FALSE, !.c.mqtt = TRUE],
                      "connect"),
                 None, "ctx")

\* Legacy engine, client.on('connect'): runs at every connect.
LegacyOnConnect(w) ==
    InitCallback([w EXCEPT !.c.mqtt = TRUE,
                           !.c.nEv = IF w.c.mqtt THEN @ + 1 ELSE @],
                 None, "ctx")

\* The client emits connect.
OnConnect(v) ==
    /\ vu[v].client = "open"
    /\ IF engine = "class" THEN vu[v].onceConnect
       ELSE ~vu[v].mqtt \/ vu[v].nEv < MaxEvents
    /\ Commit(IF engine = "class" THEN ClassOnConnect(World(v))
              ELSE LegacyOnConnect(World(v)))
    /\ UNCHANGED <<frames, lastFrame>>

\* Class engine: the listeners of "error" in the order they were added:
\* the once listener of vuInit, then the forwarder.  A listener that
\* throws ends the emit.
ClassOnError(w) ==
    IF w.c.onceError
    THEN LET w1 == InitCallback([w EXCEPT !.c.onceError = FALSE],
                                "transportError", "undef")
         IN IF w1.c.thrown > w.c.thrown THEN w1 ELSE Emit(w1, "error")
    ELSE Emit(w, "error")

\* Legacy engine: client.once('error') is the only listener; an error
\* event without a listener is thrown by the emitter.
LegacyOnError(w) ==
    IF w.c.onceError
    THEN InitCallback(Emit([w EXCEPT !.c.onceError = FALSE], "error"),
                      "transportError", "empty")
    ELSE Throw(w, "unhandledError")

\* The client emits error.
OnError(v) ==
    /\ vu[v].client = "open"
    /\ vu[v].nEv < MaxEvents
    /\ LET w == [World(v) EXCEPT !.c.nEv = @ + 1]
       IN Commit(IF engine = "class" THEN ClassOnError(w) ELSE LegacyOnError(w))
    /\ UNCHANGED <<frames, lastFrame>>

\* Class engine: the client emits reconnect.
OnReconnect(v) ==
    /\ engine = "class"
    /\ vu[v].client = "open"
    /\ vu[v].nEv < MaxEvents
    /\ Commit(Emit([World(v) EXCEPT !.c.nEv = @ + 1], "reconnect"))
    /\ UNCHANGED <<frames, lastFrame>>

\* A continuation that hands on what the function passed to it.
FunctionContinuationForwards(w, err) ==
    Callback([w EXCEPT !.c.fnErr = err], err, "ctx")

\* The continuation a function step hands to the processor function:
\* function () { return callback(null, context); }
FunctionContinuation(w, err) ==
    Callback([w EXCEPT !.c.fnErr = err], None, "ctx")

\* The processor function of a function step calls its continuation.
FunctionDone(v, err) ==
    /\ vu[v].ph = "fn"
    /\ Commit(FunctionContinuation(World(v), err))
    /\ UNCHANGED <<frames, lastFrame>>

\* The beforeRequest hook in progress calls its continuation.
HookDone(v, err) ==
    /\ vu[v].ph = "hook"
    /\ LET c == vu[v]
           rs == IF c.lj = 0 THEN tasks[c.idx] ELSE tasks[c.idx].inner[c.lj]
       IN Commit(HookContinuation(World(v), rs, err))
    /\ UNCHANGED <<frames, lastFrame>>

\* The whileTrue predicate of a loop answers.
WhileTrueAnswer(v, b) ==
    /\ vu[v].ph = "wt"
    /\ Commit(WhileTrueDone(World(v), b))
    /\ UNCHANGED <<frames, lastFrame>>

\* process.nextTick(function () { callback(null, context); })
NextTick(v) ==
    /\ vu[v].ph = "tick"
    /\ Commit(Callback(World(v), None, "ctx"))
    /\ UNCHANGED <<frames, lastFrame>>

\* The think helper's delay is over.
ThinkDone(v) ==
    /\ vu[v].ph = "think"
    /\ Commit(Callback(World(v), None, "ctx"))
    /\ UNCHANGED <<frames, lastFrame>>

\* The transport's publish calls back.
PublishDone(v, error) ==
    /\ vu[v].ph = "publish"
    /\ Commit(PublishCallback(World(v), error))
    /\ UNCHANGED <<frames, lastFrame>>

\* Class engine: the callback given to context.mqtt.end.
EndCallback(w, error) ==
    CallerCallback(Emit(w, IF error # None THEN "closeErr" ELSE "close"),
                   error, "ctx")

\* The transport's end calls back.
EndDone(v, error) ==
    /\ vu[v].st = "closing"
    /\ Commit(EndCallback(World(v), error))
    /\ UNCHANGED <<frames, lastFrame>>

\* Legacy engine: the client of VU v receives a frame; the pending entry it
\* names may be any VU's.
OnMessage(v, frame) ==
    /\ engine = "legacy"
    /\ vu[v].client = "open" /\ vu[v].mqtt
    /\ frames < MaxFrames
    /\ frames' = frames + 1
    /\ lastFrame' = frame
    /\ LET u == IF frame.id \in DOMAIN handlers THEN handlers[frame.id].vu ELSE v
       IN Commit(HandleResponse(NoteFrame(World(u), frame), frame))

\* Legacy engine: the timer of a request fires.
TimerFire(tm) ==
    /\ tm \in timers
    /\ Commit(TimeoutCallback([World(tm.vu) EXCEPT !.t = @ \ {tm},
                                                  !.r[tm.id].fired = TRUE], tm))
    /\ UNCHANGED <<frames, lastFrame>>

Next ==
    \/ CreateScenario
    \/ \E v \in VUs : Scenario(v)
    \/ \E v \in VUs : OnConnect(v)
    \/ \E v \in VUs : OnError(v)
    \/ \E v \in VUs : OnReconnect(v)
    \/ \E v \in VUs, err \in {None, "functionError"} : FunctionDone(v, err)
    \/ \E v \in VUs, err \in {None, "hookError"} : HookDone(v, err)
    \/ \E v \in VUs, b \in BOOLEAN : WhileTrueAnswer(v, b)
    \/ \E v \in VUs : NextTick(v)
    \/ \E v \in VUs : ThinkDone(v)
    \/ \E v \in VUs, err \in {None, "publishError"} : PublishDone(v, err)
    \/ \E v \in VUs, err \in {None, "closeError"} : EndDone(v, err)
    \/ \E v \in VUs, frame \in Frames : OnMessage(v, frame)
    \/ \E tm \in timers : TimerFire(tm)

Spec == Init /\ [][Next]_vars

SpecMulti == InitMulti /\ [][Next]_vars

\* ----------------------------------------------- response validation alone
\* The found-entry block of __handleResponse applied to a pending request:
\* the pending entry's callback is called with a response body.
Settle(id) ==
    /\ engine = "legacy"
    /\ id \in DOMAIN handlers
    /\ frames < MaxFrames
    /\ frames' = frames + 1
    /\ lastFrame' = Frame(TRUE, "41", TRUE, id)
    /\ Commit(MatchEntry(NoteFrame(World(handlers[id].vu),
                                   Frame(TRUE, "41", TRUE, id)), id))

\* One VU of the legacy engine whose flow starts with a request that
\* requires an acknowledgment, for every acknowledge spec and response.
InitValidate ==
    /\ probe \in {p \in Probes : ProbeOk(p)}
    /\ engine = "legacy"
    /\ spec \in [beforeScenario : {<<>>}, afterScenario : {<<>>},
                 beforeRequest : {<<>>},
                 flow : {<<RpcStep("m1", TRUE)>>,
                         <<RpcStep("m1", TRUE), FnStep("fnA", "flow")>>}]
    /\ tasks = <<>>
    /\ created = 0
    /\ handlers = [k \in {} |-> 0]
    /\ timers = {}
    /\ nextId = 1
    /\ frames = 0
    /\ lastFrame = NoFrame
    /\ reqs = [k \in {} |-> 0]
    /\ vus = {1}
    /\ vu = [v \in VUs |-> IdleVU(TRUE)]

NextValidate ==
    \/ CreateScenario
    \/ \E v \in VUs : Scenario(v)
    \/ \E v \in VUs : OnConnect(v)
    \/ \E id \in DOMAIN handlers : Settle(id)
    \/ \E tm \in timers : TimerFire(tm)
    \/ \E v \in VUs : FunctionDone(v, None)

SpecValidate == InitValidate /\ [][NextValidate]_vars

\* ------------------------------------------------------------------ claims
\* C1: once a VU's pipeline has settled (its waterfall's final callback has
\* run), the transport handle stored in its context has been closed exactly
\* once: never zero times, never twice.
C1_HandleClosedOnce ==
    \A v \in VUs :
        /\ vu[v].ends <= 1
        /\ (vu[v].wfDone /\ vu[v].mqtt) => vu[v].ends = 1

\* A run whose running step has lost its continuation: the step threw
\* before handing it on, or dropped it.  No handler can resume the run.
Suspended(v) == vu[v].st = "run" /\ vu[v].ph \in {"threw", "lost"}

\* C2: the caller's callback of the scenario function is invoked exactly
\* once: never a second time, and no run reaches a state from which it can
\* no longer be invoked.
C2_CallbackExactlyOnce ==
    \A v \in VUs : vu[v].cb <= 1 /\ ~Suspended(v)

\* C3: for every registered request the step's continuation is invoked
\* exactly once: by the match when a response frame carrying its id is
\* handled while it is pending, by the timeout otherwise; the loser and
\* later frames invoke nothing.
C3_SettledExactlyOnce ==
    \A id \in DOMAIN reqs :
        LET r == reqs[id]
        IN /\ r.calls <= 1
           /\ r.matched > 0 => (r.calls = 1 /\ r.by = "match")
           /\ r.fired => r.calls = 1
           /\ r.by = "timeout" => r.matched = 0

\* A response frame "41|{id, p}" that parses.
IsResponse(frame) == frame.sep /\ frame.marker = "41" /\ frame.json

\* C4: when the timer of a pending request fires and no response frame for
\* it was handled before, the step fails with the timeout error naming the
\* method, an error event is emitted and the entry is gone from the map;
\* and a response frame for that id handled afterwards changes nothing.
C4_TimeoutSettles ==
    /\ [](\A id \in DOMAIN reqs :
            LET r == reqs[id]
            IN (r.fired /\ r.matched = 0) =>
                 /\ r.calls = 1 /\ r.by = "timeout"
                 /\ r.err = "response timeout for " \o r.rpc
                 /\ vu[r.vu].failed = r.err
                 /\ vu[r.vu].res = r.err
                 /\ vu[r.vu].ev.error >= 1
                 /\ id \notin DOMAIN handlers)
    /\ [][(/\ frames' # frames
           /\ IsResponse(lastFrame')
           /\ lastFrame'.id \in DOMAIN reqs
           /\ reqs[lastFrame'.id].fired)
          => /\ vu' = vu
             /\ handlers' = handlers
             /\ timers' = timers
             /\ \A id \in DOMAIN reqs : reqs'[id].calls = reqs[id].calls]_vars

C4_Witness ==
    \E id \in DOMAIN reqs :
        reqs[id].fired /\ reqs[id].matched = 0 /\ reqs[id].late > 0

IsPrefix(s, t) == Len(s) <= Len(t) /\ \A i \in 1..Len(s) : s[i] = t[i]

\* The descriptor of the step VU v is running (the inner step inside a loop).
CurRs(v) ==
    IF vu[v].lj = 0 THEN tasks[vu[v].idx] ELSE tasks[vu[v].idx].inner[vu[v].lj]

\* C5: in a publish step the beforeRequest hooks, scenario-level names then
\* publish-level names, run one at a time in that order; the transport's
\* publish is called only after every hook completed, at most once; after a
\* hook gave an error no further hook starts, publish is not called and the
\* step (and the run) fails with that error.
C5_HooksInSeries ==
    \A v \in VUs :
        LET c == vu[v]
        IN (engine = "class" /\ c.idx >= 1 /\ CurRs(v).kind = "publish") =>
             LET names == spec.beforeRequest \o CurRs(v).hooks
             IN /\ IsPrefix(c.hs, names)
                /\ c.hf <= Len(c.hs) /\ Len(c.hs) <= c.hf + 1
                /\ c.ph = "hook" => Len(c.hs) = c.hf + 1
                /\ c.pub <= 1
                /\ c.pub = 1 =>
                     (c.hs = names /\ c.hf = Len(names) /\ c.hErr = None)
                /\ c.hErr # None =>
                     /\ c.pub = 0 /\ Len(c.hs) = c.hf
                     /\ c.failed = c.hErr /\ c.res = c.hErr /\ c.cb = 1

C5_Witness ==
    \E v \in VUs :
        /\ engine = "class" /\ vu[v].idx >= 1 /\ CurRs(v).kind = "publish"
        /\ vu[v].hs = <<"hookA", "hookB">> /\ vu[v].pub = 1

\* C6: a loop step that declares a count C >= 0 hands C to the loop helper
\* and runs its inner steps exactly C times, the loop variable bound to
\* 0, 1, ..., C-1 in that order.
C6_LoopRunsCountTimes ==
    \A v \in VUs : \A k \in 1..Len(tasks) :
        LET rs == tasks[k]
            c == vu[v]
        IN (rs.kind = "loop" /\ rs.hasCount /\ rs.count >= 0) =>
             /\ LoopCountArg(rs) = rs.count
             /\ c.idx >= k =>
                  /\ Len(c.iterLog) <= rs.count
                  /\ \A i \in 1..Len(c.iterLog) : c.iterLog[i] = i - 1
             /\ (c.idx > k \/ (c.wfDone /\ c.failed = None)) =>
                  Len(c.iterLog) = rs.count

\* C7: when connect or a step gives error e to its continuation, no later
\* step of that VU's pipeline is started and the caller's callback has
\* received e.
C7_FailureShortCircuits ==
    \A v \in VUs :
        LET c == vu[v]
        IN c.failed # None =>
             /\ c.seq = c.failSeq
             /\ c.cb = 1 /\ c.res = c.failed /\ c.st = "done"

C7_Witness ==
    \E v \in VUs :
        /\ vu[v].failed \in {"publishError", "response timeout for m1"}
        /\ vu[v].idx < Len(tasks)
        /\ vu[v].nEv > 0

\* The tasks of one origin that VU v has started, in the order they started.
Started(v, origin) == SelectSeq(vu[v].log, LAMBDA i : tasks[i].origin = origin)

NamesOf(idxs) == [i \in 1..Len(idxs) |-> tasks[idxs[i]].name]

\* A hook list as the flow holds it: once per call of createScenario.
Repeated(names, n) ==
    [i \in 1..(n * Len(names)) |-> names[((i - 1) % Len(names)) + 1]]

FlowTasks == {k \in 1..Len(tasks) : tasks[k].origin = "flow"}

C9_AbsentNameIsNoOp ==
    \A v \in VUs :
        /\ vu[v].cause # "constAssign"
        /\ vu[v].ph # "lost"

\* The connect task's continuation was first called by the connect listener.
ConnectedFirst(v) == vu[v].initCb >= 1 /\ vu[v].failed # "transportError"

\* C10: once the transport has connected and the connect task's
\* continuation has fired, a later transport error or reconnect does not
\* call that continuation again.
C10_ConnectContinuationOnce ==
    \A v \in VUs : ConnectedFirst(v) => vu[v].initCb = 1

\* C11: when the pipeline succeeded and closing the transport handle
\* fails, the failure is reported only as the counter mqtt.error.close: the
\* caller's callback still receives no error.
C11_CloseErrorNotEscalated ==
    \A v \in VUs :
        (engine = "class" /\ vu[v].failed = None /\ vu[v].cb >= 1
            /\ vu[v].ev.closeErr >= 1) =>
            (vu[v].res = None /\ vu[v].ev.close = 0)

\* C12: within one VU the tasks start in flow order, connect first, and
\* task k+1 starts only after the continuation of task k (of connect, for
\* the first task) has fired; while the acknowledgment of a request is not
\* settled, the VU that sent it has started no later step.
C12_StrictFlowOrder ==
    /\ \A v \in VUs :
         LET c == vu[v]
         IN /\ \A i \in 1..Len(c.log) : c.log[i] = i
            /\ \A i \in 1..Len(c.fin) : c.fin[i] = i - 1
            /\ Len(c.log) <= Len(c.fin)
            /\ Len(c.fin) <= Len(c.log) + 1
            /\ c.idx = Len(c.log)
            /\ c.log # <<>> => (c.initCb >= 1 /\ c.mqtt)
    /\ \A id \in DOMAIN reqs :
         (reqs[id].calls = 0 /\ id \in DOMAIN handlers) =>
             /\ vu[reqs[id].vu].seq = handlers[id].seq
             /\ Len(vu[reqs[id].vu].fin) = vu[reqs[id].vu].idx

C12_Witness ==
    \E v \in VUs : \E id \in DOMAIN handlers :
        /\ handlers[id].vu = v /\ reqs[id].calls = 0
        /\ vu[v].log = <<1, 2>> /\ vu[v].fin = <<0, 1>>

\* C13: the step in which a VU fails (connect failure, publish error, hook
\* error, acknowledge timeout) changes nothing of another VU: not its
\* context and position, not its transport handle or result, not its
\* pending requests and timers in the shared map.
C13_FailureIsolated ==
    [][\A v \in VUs :
         (vu[v].failed = None /\ vu'[v].failed # None) =>
             \A u \in VUs \ {v} :
                 /\ vu'[u] = vu[u]
                 /\ \A id \in DOMAIN handlers :
                      handlers[id].vu = u =>
                          (id \in DOMAIN handlers' /\ handlers'[id] = handlers[id])
                 /\ \A tm \in timers : tm.vu = u => tm \in timers']_vars

C13_Witness ==
    \E v \in VUs : \E u \in VUs \ {v} :
        /\ vu[v].failed \in {"transportError", "publishError", "hookError",
                             "response timeout for m1"}
        /\ vu[u].st = "run" /\ vu[u].ph \in {"publish", "ack", "hook"}

\* Every match expression of the probe succeeded and captureOrMatch gave
\* no error.
ExpressionsSucceed ==
    ~probe.comErr /\ \A i \in 1..Len(probe.matches) : probe.matches[i]

\* C14: a request without a literal expectation whose response is handled
\* while it is pending settles as success, and the serialized body is in
\* the VU context (context.vars.$), with or without capture and match
\* expressions.
C14_ResponseCaptured ==
    \A id \in DOMAIN reqs :
        LET r == reqs[id]
        IN (r.matched > 0 /\ ~probe.lit /\ ExpressionsSucceed) =>
             /\ r.calls >= 1 /\ r.by = "match" /\ r.err = None
             /\ vu[r.vu].body

\* C15: once a response frame has matched a pending entry, the entry is
\* gone from the map (it was marked executed and removed before its
\* callback ran), and no request is settled a second time.
C15_MatchRemovesEntry ==
    \A id \in DOMAIN reqs :
        /\ reqs[id].matched > 0 => id \notin DOMAIN handlers
        /\ reqs[id].calls <= 1

\* A frame the correlation engine has to drop: no separator, another
\* marker, a body that does not parse, or an id that is not pending.
Dropped(frame) ==
    \/ ~frame.sep
    \/ frame.marker # "41"
    \/ ~frame.json
    \/ frame.id \notin DOMAIN handlers

\* C16: handling a frame that has to be dropped leaves the pending map as
\* it was, invokes no continuation, lets no exception escape the handler,
\* and reports an error to the event sink.
C16_MalformedDropped ==
    [][(frames' # frames /\ Dropped(lastFrame')) =>
          /\ handlers' = handlers
          /\ timers' = timers
          /\ \A id \in DOMAIN reqs : reqs'[id].calls = reqs[id].calls
          /\ \A v \in VUs : vu'[v].thrown = vu[v].thrown
          /\ \E v \in VUs : vu'[v].ev.error = vu[v].ev.error + 1]_vars

\* The transport's publish of VU v calls back in this step.
PublishCalledBack(v) ==
    /\ vu[v].ph = "publish"
    /\ vu'[v] # vu[v]
    /\ vu'[v].nEv = vu[v].nEv

\* C17: a publish step whose hooks succeeded has called the transport's
\* publish once, and its callback ends the step in one of two ways: with an
\* error, one error event, no publish counter, no rate, and the step (and
\* the run) fails with that error; without, the counter mqtt.publish_count
\* and the rate mqtt.publish_rate once each, no error event, and the
\* pipeline goes on.
C17_PublishOutcomes ==
    [][\A v \in VUs :
         PublishCalledBack(v) =>
             LET c == vu[v]
                 d == vu'[v]
             IN /\ c.pub = 1 /\ d.pub <= 1
                /\ \/ /\ d.failed = "publishError"
                      /\ d.ev.error = c.ev.error + 1
                      /\ d.ev.publish = c.ev.publish
                      /\ d.ev.rate = c.ev.rate
                      /\ d.cb = 1 /\ d.res = "publishError"
                      /\ d.seq = c.seq
                   \/ /\ d.failed = None
                      /\ d.ev.error = c.ev.error
                      /\ d.ev.publish = c.ev.publish + 1
                      /\ d.ev.rate = c.ev.rate + 1
                      /\ d.cb = 0
                      /\ \/ d.seq = c.seq + 1
                         \/ d.wfDone /\ d.st = "closing"
                         \/ d.ph \in {"wt", "bound"}]_vars

C17_Witness ==
    \E v \in VUs :
        /\ vu[v].ev.publish = 1 /\ vu[v].ev.rate = 1
        /\ vu[v].failed = "publishError" /\ vu[v].ev.error = 1

\* The context of VU v as response validation found it: nothing captured,
\* no match event, the success counter at 0.
ContextUntouched(v) ==
    /\ vu[v].captured = 0 /\ ~vu[v].body
    /\ vu[v].succ = 0 /\ vu[v].ev.match = 0

\* The request id was settled by the match as a failure of its step.
StepFailedByMatch(id) ==
    /\ reqs[id].calls = 1 /\ reqs[id].by = "match" /\ reqs[id].err # None
    /\ vu[reqs[id].vu].failed = reqs[id].err

\* C18: after a response was validated once for a pending request: on a
\* literal mismatch or a failed match expression the step has failed, no
\* match event was emitted and the variable mapping and the success counter
\* are as before; when every expression succeeded, the captured values are
\* merged, one match event per expression was emitted and the success
\* counter went up by exactly 1.
C18_ValidationAllOrNothing ==
    \A id \in DOMAIN reqs :
        (frames = 1 /\ reqs[id].matched = 1) =>
            LET v == reqs[id].vu
            IN /\ (probe.lit /\ ~probe.equal) =>
                    (StepFailedByMatch(id) /\ ContextUntouched(v))
               /\ (~probe.lit /\ (probe.capture \/ probe.match)
                     /\ ~ExpressionsSucceed) =>
                    (StepFailedByMatch(id) /\ ContextUntouched(v))
               /\ (~probe.lit /\ (probe.capture \/ probe.match)
                     /\ ExpressionsSucceed) =>
                    /\ reqs[id].calls = 1 /\ reqs[id].err = None
                    /\ vu[v].captured = probe.captures
                    /\ vu[v].ev.match = Len(probe.matches)
                    /\ vu[v].succ = 1

\* What can end a loop that no inner step fails: a count, or a whileTrue
\* predicate the processor exports.
LoopHasExit(rs) == LoopCountArg(rs) >= 0 \/ WhileTrueArg(rs) # None

\* C19: a loop step without a count (or with a negative one) and without a
\* resolved whileTrue predicate is not iterated without end: the VU leaves
\* it, so it never stands at the loop's test with MaxIter iterations done
\* and the test answering that the loop goes on.
C19_UnguardedLoopLeaves ==
    \A v \in VUs :
        (vu[v].idx >= 1 /\ tasks[vu[v].idx].kind = "loop"
            /\ ~LoopHasExit(tasks[vu[v].idx])) =>
            ~(vu[v].li = MaxIter /\ vu[v].ph = "bound")

\* C20: the requests that are pending (their timers have not fired) have
\* pairwise distinct ids, and each still has the entry it registered in the
\* shared map: no registration has overwritten it.
C20_PendingIdsDistinct ==
    /\ \A t1 \in timers : \A t2 \in timers : t1.id = t2.id => t1 = t2
    /\ \A tm \in timers :
         /\ tm.id \in DOMAIN handlers
         /\ handlers[tm.id].vu = tm.vu
         /\ handlers[tm.id].seq = tm.seq
    /\ \A id \in DOMAIN handlers : id < nextId

C20_Witness ==
    \E t1 \in timers : \E t2 \in timers :
        /\ t1.vu # t2.vu
        /\ vu[t1.vu].ph = "ack" /\ vu[t2.vu].ph = "ack"

\* The function of the function step VU v is running calls its
\* continuation in this step.
FunctionCalledBack(v) ==
    /\ vu[v].ph = "fn"
    /\ vu'[v] # vu[v]
    /\ vu'[v].nEv = vu[v].nEv

\* C21: whatever the registered function of a function step (a
\* beforeScenario or afterScenario hook included) passes to its
\* continuation, the step goes on with success and the context: the run has
\* not failed, and the next step starts or, after the last step, the
\* pipeline settles without error.
C21_FunctionStepNeverFails ==
    /\ [](\A v \in VUs : vu[v].failed # "functionError"
                         /\ vu[v].res # "functionError")
    /\ [][\A v \in VUs :
            FunctionCalledBack(v) =>
                LET c == vu[v]
                    d == vu'[v]
                IN /\ c.failed = None /\ d.failed = None
                   /\ Len(d.fin) > Len(c.fin)
                   /\ d.fin[Len(c.fin) + 1] = c.idx
                   /\ \/ d.seq > c.seq /\ d.idx > c.idx
                      \/ /\ c.idx = Len(tasks) /\ d.wfDone
                         /\ d.res = None
                         /\ (d.st = "closing" \/ d.resCtx = "ctx")]_vars

C21_Witness ==
    \E v \in VUs :
        /\ engine = "class" /\ spec.beforeScenario # <<>>
        /\ vu[v].fnErr = "functionError"
        /\ vu[v].failed = None /\ vu[v].idx >= 2

\* The tasks of the compiled pipeline that came from one origin.
TasksOf(origin) == {k \in 1..Len(tasks) : tasks[k].origin = origin}

\* C22: the pipeline createScenario compiles holds each beforeScenario
\* hook once, the steps of the declared flow, and each afterScenario hook
\* once, also when createScenario was called on the same scenarioSpec
\* before.
C22_CompileIdempotent ==
    (engine = "class" /\ created >= 1) =>
        /\ Cardinality(TasksOf("before")) = Len(spec.beforeScenario)
        /\ Cardinality(TasksOf("after")) = Len(spec.afterScenario)
        /\ Len(tasks) = Len(spec.beforeScenario)
                          + Cardinality(TasksOf("flow"))
                          + Len(spec.afterScenario)

====
